---- MODULE Spec2Model ----
(***************************************************************************)
(* Model of the anchor_basset_reward contract: the swap converter, the     *)
(* global index updater (global.rs) and the reward sender / swap of the    *)
(* companion entry point (contracts.rs).                                   *)
(*                                                                         *)
(* Amounts are Uint128 and the index is a Decimal (a Uint128 holding the   *)
(* value times DECIMAL_FRACTIONAL).  Both are scaled down so that the      *)
(* products fit the model checker's integers: UINT128_MAX stands for       *)
(* 2^128 - 1 and DECIMAL_FRACTIONAL for 10^18.  Arithmetic that leaves     *)
(* the Uint128 range aborts the invocation (checked subtraction returns    *)
(* an error; overflowing multiplication and a Decimal256 sum that does     *)
(* not fit a Decimal abort the call).                                      *)
(*                                                                         *)
(* call and res record the last invocation and its response; audit is a    *)
(* ledger of what arrived at the contract and what the updates counted.    *)
(***************************************************************************)
EXTENDS Integers, Sequences, FiniteSets, TLC

VARIABLES initialized, config, state, balances, call, res, pending, deposits, audit

vars == <<initialized, config, state, balances, call, res, pending, deposits, audit>>

-----------------------------------------------------------------------------
(* Sizes of the model *)

UINT128_MAX == 131071
DECIMAL_FRACTIONAL == 100
MaxBalance == 2000
MaxDeposits == 2
TAX_RATE == 10
TAX_CAP == 5
SWAP_RATE == 2

SWAP_DENOM == "uusd"
CONTRACT == "reward"
Addrs == {"hub", "owner", "user"}
Denoms == {"ukrw", "uusd"}
DenomOrder == <<"ukrw", "uusd">>
FeeRates == {0, DECIMAL_FRACTIONAL \div 10, DECIMAL_FRACTIONAL}
TotalBalances == {0, 7, 1000}
PrevBalances == {0, 100, 600}
DepositAmounts == [ukrw |-> {900}, uusd |-> {25, 900}]
SendAmounts == {0, 500}

Min(a, b) == IF a <= b THEN a ELSE b

-----------------------------------------------------------------------------
(* Errors (StdError variants as the handlers construct them) *)

ErrUnauthorized == "Unauthorized"
ErrNoAsset == "GenericErr(No asset is bonded by Hub)"
ErrUnderflow == "Underflow"
ErrZeroAmount == "GenericErr(Invalid zero amount)"
ErrSendUnauthorized == "GenericErr(unauthorized)"
ErrPanic == "Panic"
ErrUninitialized == "Uninitialized"

Err(e) == [ok |-> FALSE, err |-> e, messages |-> <<>>, log |-> <<>>]
Ok(msgs, lg) == [ok |-> TRUE, err |-> "", messages |-> msgs, log |-> lg]

BankSend(from, to, denom, amount) ==
    [type |-> "Send", from |-> from, to |-> to, denom |-> denom,
     amount |-> amount, ask_denom |-> ""]

create_swap_msg(trader, denom, amount, ask) ==
    [type |-> "Swap", from |-> trader, to |-> trader, denom |-> denom,
     amount |-> amount, ask_denom |-> ask]

\* Api::canonical_address / human_address: a bijection on addresses.
canonical_address(a) == <<"canonical", a>>

human_address(c) == c[2]

\* Querier::query_all_balances: the coins held, nonzero amounts only.
RECURSIVE CoinsFrom(_, _)
CoinsFrom(bal, i) ==
    IF i > Len(DenomOrder) THEN <<>>
    ELSE LET d == DenomOrder[i] IN
         (IF bal[d] > 0 THEN <<[denom |-> d, amount |-> bal[d]]>> ELSE <<>>)
         \o CoinsFrom(bal, i + 1)

query_all_balances(bal) == CoinsFrom(bal, 1)

query_balance(bal, denom) == bal[denom]

-----------------------------------------------------------------------------
(* Collaborators of the updater *)

\* basset::compute_lido_fee: amount * fee_rate (Uint128 * Decimal, rounded
\* down).
compute_lido_fee(amount, fee_rate) == (amount * fee_rate) \div DECIMAL_FRACTIONAL

\* basset::compute_tax: min(amount - amount / (1 + tax_rate), tax_cap).
compute_tax(amount) ==
    Min(amount - (amount * DECIMAL_FRACTIONAL) \div (DECIMAL_FRACTIONAL + TAX_RATE),
        TAX_CAP)

\* basset::deduct_tax: the amount the receiver gets after the transfer tax.
deduct_tax(amount) == amount - compute_tax(amount)

\* Decimal::from_ratio(nominator, denominator):
\* Decimal(nominator * DECIMAL_FRACTIONAL / denominator), in Uint128.
from_ratio_fits(nominator, denominator) ==
    denominator # 0 /\ nominator * DECIMAL_FRACTIONAL <= UINT128_MAX

\* Variant: the quotient is rounded up.
from_ratio_round_up(nominator, denominator) ==
    (nominator * DECIMAL_FRACTIONAL + denominator - 1) \div denominator

from_ratio(nominator, denominator) ==
    (nominator * DECIMAL_FRACTIONAL) \div denominator

\* math::decimal_summation_in_256(a, b): a + b formed in Decimal256 and
\* converted back to Decimal, which requires the sum to fit a Uint128.
summation_fits(a, b) == a + b <= UINT128_MAX

decimal_summation_in_256(a, b) == a + b

-----------------------------------------------------------------------------
(* handle_update_global_index, step by step (global.rs) *)

\* read_config / read_state: the load fails when the record is absent.
storage_absent(present) == ~present

\* Variant: the sender is compared with the owner instead of hub_contract.
is_hub_checks_owner(cfg, sender) == cfg.owner = canonical_address(sender)

\* Permission check: config.hub_contract against the sender's canonical
\* address.
is_hub(cfg, sender) == cfg.hub_contract = canonical_address(sender)

\* Variant: the zero staking balance check is missing.
no_asset_bonded_unchecked(st) == FALSE

\* Zero staking balance check.
no_asset_bonded(st) == st.total_balance = 0

\* Variant: the subtraction is not checked.
claimed_underflows_unchecked(balance, previous_balance) == FALSE

\* Variant: the previous balance is not subtracted.
claimed_gross_whole_balance(balance, previous_balance) == balance

\* claimed_rewards = (balance.amount - previous_balance)?
claimed_underflows(balance, previous_balance) == balance < previous_balance

claimed_gross(balance, previous_balance) == balance - previous_balance

\* claimed_rewards = (claimed_rewards - lido_fee)?
claimed_net(claimed_rewards, lido_fee) == claimed_rewards - lido_fee

\* Variant: the transfer declares the gross lido_fee.
fee_msgs_gross(cfg, lido_fee) ==
    <<BankSend(CONTRACT, cfg.lido_fee_address, cfg.reward_denom, lido_fee)>>

\* The fee transfer pushed to msgs.
fee_msgs(cfg, lido_fee) ==
    <<BankSend(CONTRACT, cfg.lido_fee_address, cfg.reward_denom,
               deduct_tax(lido_fee))>>

\* Variant: the snapshot is debited by the post-tax amount.
new_prev_reward_balance_post_tax(balance, lido_fee) == balance - deduct_tax(lido_fee)

\* state.prev_reward_balance = (balance.amount - lido_fee)?
new_prev_reward_balance(balance, lido_fee) == balance - lido_fee

\* Variant: the ratio overwrites the index instead of being added to it.
new_global_index_overwrite(global_index, claimed_rewards, total_balance) ==
    from_ratio(claimed_rewards, total_balance)

\* state.global_index = decimal_summation_in_256(state.global_index,
\*     Decimal::from_ratio(claimed_rewards, state.total_balance))
new_global_index(global_index, claimed_rewards, total_balance) ==
    decimal_summation_in_256(global_index,
                             from_ratio(claimed_rewards, total_balance))

update_log(claimed_rewards, lido_fee) ==
    << <<"action", "update_global_index">>,
       <<"claimed_rewards", claimed_rewards>>,
       <<"lido_fee", lido_fee>> >>

\* Variant: State is stored as soon as the snapshot is computed, before the
\* index is advanced.
update_outcome_early_store(present, cfg, st, sender, balance) ==
    IF storage_absent(present)
      THEN [res |-> Err(ErrUninitialized), state |-> st]
    ELSE IF ~is_hub(cfg, sender)
      THEN [res |-> Err(ErrUnauthorized), state |-> st]
    ELSE IF no_asset_bonded(st)
      THEN [res |-> Err(ErrNoAsset), state |-> st]
    ELSE IF claimed_underflows(balance, st.prev_reward_balance)
      THEN [res |-> Err(ErrUnderflow), state |-> st]
    ELSE
      LET gross    == claimed_gross(balance, st.prev_reward_balance)
          lido_fee == compute_lido_fee(gross, cfg.lido_fee_rate)
          stored   == [st EXCEPT !.prev_reward_balance =
                                    new_prev_reward_balance(balance, lido_fee)]
      IN
      IF gross < lido_fee
        THEN [res |-> Err(ErrUnderflow), state |-> st]
      ELSE IF balance < lido_fee
        THEN [res |-> Err(ErrUnderflow), state |-> st]
      ELSE
        LET net == claimed_net(gross, lido_fee) IN
        IF ~from_ratio_fits(net, st.total_balance)
          THEN [res |-> Err(ErrPanic), state |-> stored]
        ELSE IF ~summation_fits(st.global_index, from_ratio(net, st.total_balance))
          THEN [res |-> Err(ErrPanic), state |-> stored]
        ELSE
          [res   |-> Ok(fee_msgs(cfg, lido_fee), update_log(net, lido_fee)),
           state |-> [stored EXCEPT !.global_index =
                        new_global_index(st.global_index, net, st.total_balance)]]

\* Variant: the zero staking balance check comes before the permission check.
update_outcome_guards_swapped(present, cfg, st, sender, balance) ==
    IF storage_absent(present)
      THEN [res |-> Err(ErrUninitialized), state |-> st]
    ELSE IF no_asset_bonded(st)
      THEN [res |-> Err(ErrNoAsset), state |-> st]
    ELSE IF ~is_hub(cfg, sender)
      THEN [res |-> Err(ErrUnauthorized), state |-> st]
    ELSE IF claimed_underflows(balance, st.prev_reward_balance)
      THEN [res |-> Err(ErrUnderflow), state |-> st]
    ELSE
      LET gross    == claimed_gross(balance, st.prev_reward_balance)
          lido_fee == compute_lido_fee(gross, cfg.lido_fee_rate)
      IN
      IF gross < lido_fee
        THEN [res |-> Err(ErrUnderflow), state |-> st]
      ELSE IF balance < lido_fee
        THEN [res |-> Err(ErrUnderflow), state |-> st]
      ELSE
        LET net == claimed_net(gross, lido_fee) IN
        IF ~from_ratio_fits(net, st.total_balance)
          THEN [res |-> Err(ErrPanic), state |-> st]
        ELSE IF ~summation_fits(st.global_index, from_ratio(net, st.total_balance))
          THEN [res |-> Err(ErrPanic), state |-> st]
        ELSE
          [res   |-> Ok(fee_msgs(cfg, lido_fee), update_log(net, lido_fee)),
           state |-> [total_balance       |-> st.total_balance,
                      prev_reward_balance |-> new_prev_reward_balance(balance, lido_fee),
                      global_index        |-> new_global_index(st.global_index, net,
                                                               st.total_balance)]]

\* The outcome of one invocation: the response and the State left in storage.
update_outcome(present, cfg, st, sender, balance) ==
    IF storage_absent(present)
      THEN [res |-> Err(ErrUninitialized), state |-> st]
    ELSE IF ~is_hub(cfg, sender)
      THEN [res |-> Err(ErrUnauthorized), state |-> st]
    ELSE IF no_asset_bonded(st)
      THEN [res |-> Err(ErrNoAsset), state |-> st]
    ELSE IF claimed_underflows(balance, st.prev_reward_balance)
      THEN [res |-> Err(ErrUnderflow), state |-> st]
    ELSE
      LET gross    == claimed_gross(balance, st.prev_reward_balance)
          lido_fee == compute_lido_fee(gross, cfg.lido_fee_rate)
      IN
      IF gross < lido_fee
        THEN [res |-> Err(ErrUnderflow), state |-> st]
      ELSE IF balance < lido_fee
        THEN [res |-> Err(ErrUnderflow), state |-> st]
      ELSE
        LET net == claimed_net(gross, lido_fee) IN
        IF ~from_ratio_fits(net, st.total_balance)
          THEN [res |-> Err(ErrPanic), state |-> st]
        ELSE IF ~summation_fits(st.global_index, from_ratio(net, st.total_balance))
          THEN [res |-> Err(ErrPanic), state |-> st]
        ELSE
          [res   |-> Ok(fee_msgs(cfg, lido_fee), update_log(net, lido_fee)),
           state |-> [total_balance       |-> st.total_balance,
                      prev_reward_balance |-> new_prev_reward_balance(balance, lido_fee),
                      global_index        |-> new_global_index(st.global_index, net,
                                                               st.total_balance)]]

-----------------------------------------------------------------------------
(* handle_swap of global.rs and the handlers of contracts.rs *)

\* for coin in balance { if coin.denom == reward_denom { continue; } push }
RECURSIVE swap_msgs(_, _)
swap_msgs(coins, reward_denom) ==
    IF coins = <<>> THEN <<>>
    ELSE (IF Head(coins).denom = reward_denom THEN <<>>
          ELSE <<create_swap_msg(CONTRACT, Head(coins).denom,
                                 Head(coins).amount, reward_denom)>>)
         \o swap_msgs(Tail(coins), reward_denom)

\* global.rs handle_swap: only hub_contract may execute.
swap_outcome(present, cfg, sender, bal) ==
    IF storage_absent(present)
      THEN Err(ErrUninitialized)
    ELSE IF sender # human_address(cfg.hub_contract)
      THEN Err(ErrUnauthorized)
      ELSE Ok(swap_msgs(query_all_balances(bal), cfg.reward_denom),
              << <<"action", "swap">> >>)

\* for coin in balance { push create_swap_msg(contr_addr, coin, SWAP_DENOM) }
RECURSIVE swap_all_msgs(_)
swap_all_msgs(coins) ==
    IF coins = <<>> THEN <<>>
    ELSE <<create_swap_msg(CONTRACT, Head(coins).denom, Head(coins).amount,
                           SWAP_DENOM)>>
         \o swap_all_msgs(Tail(coins))

\* contracts.rs handle_swap: no sender check, every coin is offered.
contracts_swap_outcome(bal) ==
    Ok(swap_all_msgs(query_all_balances(bal)),
       << <<"action", "swap">>, <<"from", CONTRACT>> >>)

\* Variant: the zero amount check is missing.
zero_amount_unchecked(amount) == FALSE

zero_amount(amount) == amount = 0

is_owner(cfg, sender) == cfg.owner = canonical_address(sender)

\* Variant: the transfer is addressed to the contract itself.
send_msgs_to_self(receiver, amount) ==
    <<BankSend(CONTRACT, CONTRACT, "uusd", amount)>>

send_msgs(receiver, amount) ==
    <<BankSend(CONTRACT, receiver, "uusd", amount)>>

\* contracts.rs handle_send
send_outcome(present, cfg, sender, receiver, amount) ==
    IF zero_amount(amount)
      THEN Err(ErrZeroAmount)
    ELSE IF storage_absent(present)
      THEN Err(ErrUninitialized)
    ELSE IF ~is_owner(cfg, sender)
      THEN Err(ErrSendUnauthorized)
    ELSE Ok(send_msgs(receiver, amount),
            << <<"action", "send_reward">>, <<"from", CONTRACT>>,
               <<"amount", amount>> >>)

-----------------------------------------------------------------------------
(* The state machine *)

NoState == [total_balance |-> 0, prev_reward_balance |-> 0, global_index |-> 0]

NoConfig ==
    [owner            |-> canonical_address(""),
     hub_contract     |-> canonical_address(""),
     reward_denom     |-> "",
     lido_fee_rate    |-> 0,
     lido_fee_address |-> ""]

NoCall ==
    [op |-> "none", entry |-> "", sender |-> "", receiver |-> "", amount |-> 0,
     initialized |-> FALSE,
     balances |-> [d \in Denoms |-> 0],
     state |-> NoState]

\* The ledger of arrivals: arrived is what has come into the reward_denom
\* balance since the initial snapshot, uncounted the part of it that came
\* after the last successful update, counted the sum of net claimed_rewards
\* + lido_fee and net_sum the sum of net claimed_rewards over the successful
\* updates; clean holds while the reward_denom balance has changed only by
\* arrivals and by debits of exactly the lido_fee of an update; once it no
\* longer holds the arrivals are not followed any further.
NoAudit == [arrived |-> 0, uncounted |-> 0, counted |-> 0, net_sum |-> 0,
            clean |-> TRUE]

audit_unclean(a) ==
    [a EXCEPT !.arrived = 0, !.uncounted = 0, !.counted = 0, !.clean = FALSE]

audit_arrival(a, amount) ==
    IF a.clean
      THEN [a EXCEPT !.arrived = @ + amount, !.uncounted = @ + amount]
      ELSE a

audit_update(a, r) ==
    IF ~r.ok THEN a
    ELSE IF a.clean
      THEN [a EXCEPT !.counted = @ + r.log[2][2] + r.log[3][2],
                     !.net_sum = @ + r.log[2][2],
                     !.uncounted = 0]
      ELSE [a EXCEPT !.net_sum = @ + r.log[2][2]]

\* Before instantiation: no Config, no State; the account may hold funds.
Init ==
    /\ initialized = FALSE
    /\ config = NoConfig
    /\ state = NoState
    /\ \E p \in PrevBalances :
         balances = [d \in Denoms |-> IF d = "uusd" THEN p ELSE 0]
    /\ call = NoCall
    /\ res = Ok(<<>>, <<>>)
    /\ pending = <<>>
    /\ deposits = 0
    /\ audit = NoAudit

\* init: Config and State are saved; the snapshot starts at the balance held.
init ==
    /\ ~initialized
    /\ pending = <<>>
    /\ initialized' = TRUE
    /\ \E r \in FeeRates :
         config' = [owner            |-> canonical_address("owner"),
                    hub_contract     |-> canonical_address("hub"),
                    reward_denom     |-> "uusd",
                    lido_fee_rate    |-> r,
                    lido_fee_address |-> "lido"]
    /\ \E t \in TotalBalances :
         state' = [total_balance |-> t,
                   prev_reward_balance |-> balances["uusd"],
                   global_index |-> 0]
    /\ call' = [NoCall EXCEPT !.op = "init", !.sender = "owner",
                               !.balances = balances]
    /\ res' = Ok(<<>>, <<>>)
    /\ UNCHANGED <<balances, pending, deposits, audit>>

\* Funds arriving at the contract from outside (rewards, deposits).
Deposit ==
    /\ initialized
    /\ pending = <<>>
    /\ deposits < MaxDeposits
    /\ \E d \in Denoms : \E a \in DepositAmounts[d] :
         /\ balances[d] + a <= MaxBalance
         /\ balances' = [balances EXCEPT ![d] = @ + a]
         /\ audit' = IF d = config.reward_denom THEN audit_arrival(audit, a)
                     ELSE audit
    /\ deposits' = deposits + 1
    /\ UNCHANGED <<initialized, config, state, call, res, pending>>

Invoke(op, entry, sender, receiver, amount, r, st) ==
    /\ call' = [op |-> op, entry |-> entry, sender |-> sender,
                receiver |-> receiver, amount |-> amount,
                initialized |-> initialized,
                balances |-> balances, state |-> state]
    /\ res' = r
    /\ state' = st
    /\ pending' = r.messages
    /\ UNCHANGED <<initialized, config, balances, deposits>>

handle_update_global_index ==
    /\ pending = <<>>
    /\ \E sender \in Addrs :
         LET out == update_outcome(initialized, config, state, sender,
                                   IF initialized
                                     THEN query_balance(balances, config.reward_denom)
                                     ELSE 0)
         IN /\ Invoke("UpdateGlobalIndex", "global", sender, "", 0, out.res, out.state)
            /\ audit' = audit_update(audit, out.res)

handle_swap ==
    /\ pending = <<>>
    /\ \E sender \in Addrs :
         Invoke("TriggerSwap", "global", sender, "", 0,
                swap_outcome(initialized, config, sender, balances), state)
    /\ UNCHANGED audit

\* Variant: the payout is taken off the snapshot.
stored_after_send_debited(st, r) ==
    IF r.ok THEN [st EXCEPT !.prev_reward_balance = @ - r.messages[1].amount]
    ELSE st

\* handle_send never calls store_state: State stays as stored.
stored_after_send(st, r) == st

handle_send ==
    /\ pending = <<>>
    /\ \E sender \in Addrs, amount \in SendAmounts :
         LET r == send_outcome(initialized, config, sender, "user", amount)
         IN Invoke("SendReward", "contracts", sender, "user", amount, r,
                   stored_after_send(state, r))
    /\ UNCHANGED audit

contracts_handle_swap ==
    /\ pending = <<>>
    /\ \E sender \in Addrs :
         Invoke("TriggerSwap", "contracts", sender, "", 0,
                contracts_swap_outcome(balances), state)
    /\ UNCHANGED audit

\* contracts.rs handle: match msg { SendReward => handle_send, Swap => handle_swap }
handle ==
    \/ handle_send
    \/ contracts_handle_swap

\* The ledger's transfer tax on a declared amount, paid by the sender on top.
ledger_tax(amount) == Min((amount * TAX_RATE) \div DECIMAL_FRACTIONAL, TAX_CAP)

\* What executing one emitted instruction costs and yields, or that it fails
\* (insufficient funds; a swap into the offered denomination).
msg_fails(bal, m) ==
    IF m.type = "Send"
      THEN bal[m.denom] < m.amount + ledger_tax(m.amount)
      ELSE m.denom = m.ask_denom \/ bal[m.denom] < m.amount

msg_effect(bal, m) ==
    IF m.type = "Send"
      THEN [bal EXCEPT ![m.denom] = @ - (m.amount + ledger_tax(m.amount))]
      ELSE [d \in Denoms |->
              IF d = m.denom THEN bal[d] - m.amount
              ELSE IF d = m.ask_denom THEN bal[d] + m.amount \div SWAP_RATE
              ELSE bal[d]]

\* The ledger entry of one executed instruction: swap proceeds are arrivals,
\* the fee transfer of an update is a debit of lido_fee when the ledger
\* takes exactly that, anything else leaves the ledger unclean.
audit_effect(a, m) ==
    IF m.type = "Swap"
      THEN (IF initialized /\ m.ask_denom = config.reward_denom
              THEN audit_arrival(a, m.amount \div SWAP_RATE) ELSE a)
    ELSE IF /\ call.op = "UpdateGlobalIndex"
            /\ m.amount + ledger_tax(m.amount) = res.log[3][2]
      THEN a
    ELSE audit_unclean(a)

\* The host executes the instructions of the response after the handler has
\* returned; a failing instruction reverts the whole transaction.
HostExecute ==
    /\ pending # <<>>
    /\ IF msg_fails(balances, Head(pending))
         THEN /\ balances' = call.balances
              /\ state' = call.state
              /\ pending' = <<>>
              /\ audit' = audit_unclean(audit)
         ELSE /\ balances' = msg_effect(balances, Head(pending))
              /\ pending' = Tail(pending)
              /\ audit' = audit_effect(audit, Head(pending))
              /\ UNCHANGED state
    /\ UNCHANGED <<initialized, config, call, res, deposits>>

Next ==
    \/ init
    \/ Deposit
    \/ handle_update_global_index
    \/ handle_swap
    \/ handle
    \/ HostExecute

Spec == Init /\ [][Next]_vars

-----------------------------------------------------------------------------
(* Properties *)

IsUpdate == call.op = "UpdateGlobalIndex"
IsSwap == call.op = "TriggerSwap"
IsSend == call.op = "SendReward"
Loaded == call.initialized
SenderIsHub == Loaded /\ canonical_address(call.sender) = config.hub_contract
SenderIsOwner == Loaded /\ canonical_address(call.sender) = config.owner
SenderNotHub == Loaded /\ canonical_address(call.sender) # config.hub_contract
SenderNotOwner == Loaded /\ canonical_address(call.sender) # config.owner
Queried == call.balances[config.reward_denom]
LoggedClaimed == res.log[2][2]
LoggedFee == res.log[3][2]
Rejected(e) == ~res.ok /\ res.err = e /\ res.messages = <<>> /\ pending = <<>>

\* C1: global_index never decreases, whatever the invocations and the
\* balance changes between them; a successful UpdateGlobalIndex leaves it
\* greater than or equal to its value before the call.
C1_IndexNonDecreasing ==
    [][state'.global_index >= state.global_index]_vars

C1_Witness ==
    /\ IsUpdate /\ res.ok
    /\ state.global_index > call.state.global_index
    /\ call.state.global_index > 0

\* C2: a successful UpdateGlobalIndex with queried balance B, stored
\* prev_reward_balance P, fee rate r and total_balance T has gross = B - P,
\* lido_fee = gross * r rounded to a whole amount, net = gross - lido_fee,
\* stores prev_reward_balance = B - lido_fee, adds net / T rounded down to the
\* index precision to global_index and keeps total_balance; with T = 1000,
\* P = 100, r = 0.10, B = 1000: fee 90, net 810, snapshot 910, increase 0.81.
C2_UpdateComputation ==
    (IsUpdate /\ res.ok) =>
      LET B     == Queried
          P     == call.state.prev_reward_balance
          T     == call.state.total_balance
          r     == config.lido_fee_rate
          gross == B - P
          fee   == LoggedFee
          net   == LoggedClaimed
      IN /\ gross >= 0
         /\ fee * DECIMAL_FRACTIONAL - gross * r < DECIMAL_FRACTIONAL
         /\ gross * r - fee * DECIMAL_FRACTIONAL < DECIMAL_FRACTIONAL
         /\ net = gross - fee
         /\ net + fee = B - P
         /\ state.prev_reward_balance = B - fee
         /\ state.global_index =
              call.state.global_index + (net * DECIMAL_FRACTIONAL) \div T
         /\ state.total_balance = T
         /\ (T = 1000 /\ P = 100 /\ B = 1000 /\ r * 10 = DECIMAL_FRACTIONAL) =>
              /\ gross = 900 /\ fee = 90 /\ net = 810
              /\ state.prev_reward_balance = 910
              /\ (state.global_index - call.state.global_index) * 100
                   = 81 * DECIMAL_FRACTIONAL

C2_Witness ==
    /\ IsUpdate /\ res.ok
    /\ call.state.total_balance = 1000
    /\ call.state.prev_reward_balance = 100
    /\ Queried = 1000
    /\ config.lido_fee_rate * 10 = DECIMAL_FRACTIONAL
    /\ state.prev_reward_balance = 910

\* C3: UpdateGlobalIndex by hub_contract while total_balance = 0 fails with
\* the explicit "no asset bonded" error, leaves State unchanged and emits no
\* instruction.
C3_ZeroPrincipalRejected ==
    (IsUpdate /\ SenderIsHub /\ call.state.total_balance = 0) =>
      /\ Rejected(ErrNoAsset)
      /\ state = call.state

C3_Witness ==
    /\ IsUpdate /\ SenderIsHub
    /\ call.state.total_balance = 0
    /\ Queried > call.state.prev_reward_balance
    /\ res.err = ErrNoAsset

\* C4: UpdateGlobalIndex by hub_contract with total_balance > 0 and a queried
\* balance below prev_reward_balance fails with an underflow error (no
\* clamping to zero), leaves State unchanged and emits no instruction.
C4_BalanceDecreaseRejected ==
    (/\ IsUpdate /\ SenderIsHub
     /\ call.state.total_balance > 0
     /\ Queried < call.state.prev_reward_balance) =>
      /\ Rejected(ErrUnderflow)
      /\ state = call.state

C4_Witness ==
    /\ IsUpdate /\ SenderIsHub
    /\ call.state.total_balance > 0
    /\ Queried < call.state.prev_reward_balance
    /\ res.err = ErrUnderflow

\* C5: TriggerSwap by any sender other than hub_contract is rejected with
\* Unauthorized and produces no conversion instruction, whatever the
\* contract holds.
C5_SwapOnlyByHub ==
    (IsSwap /\ SenderNotHub) => Rejected(ErrUnauthorized)

\* The conversion instructions C6 expects for the balances held at the call.
ExpectedSwaps(bal) ==
    LET foreign == {d \in Denoms : d # config.reward_denom /\ bal[d] > 0}
    IN {create_swap_msg(CONTRACT, d, bal[d], config.reward_denom) : d \in foreign}

\* C6: a successful TriggerSwap emits exactly one conversion instruction per
\* held balance whose denomination differs from reward_denom, for the full
\* balance and into reward_denom, and none for the reward_denom balance.
C6_SwapForeignOnly ==
    (IsSwap /\ Loaded /\ res.ok) =>
      /\ {res.messages[i] : i \in 1..Len(res.messages)} = ExpectedSwaps(call.balances)
      /\ Len(res.messages) = Cardinality(ExpectedSwaps(call.balances))

\* C7: SendReward with amount = 0 fails with the zero-amount error for every
\* sender, owner or not, and emits no transfer instruction.
C7_ZeroAmountRejected ==
    (IsSend /\ call.amount = 0) => Rejected(ErrZeroAmount)

C7_Witness ==
    /\ IsSend /\ call.amount = 0
    /\ SenderNotOwner
    /\ res.err = ErrZeroAmount

\* C8: SendReward(receiver, amount) with amount > 0 by the configured owner
\* succeeds, emits exactly one transfer from the contract to receiver for
\* exactly amount, and changes neither State nor Config.
C8_SendByOwner ==
    /\ [](   (IsSend /\ call.amount > 0 /\ SenderIsOwner) =>
               /\ res.ok
               /\ res.messages =
                    <<BankSend(CONTRACT, call.receiver, "uusd", call.amount)>>
               /\ state = call.state)
    /\ [][initialized => config' = config]_vars

C8_Witness ==
    /\ IsSend /\ call.amount > 0 /\ SenderIsOwner
    /\ res.ok
    /\ Len(res.messages) = 1

\* C9: an UpdateGlobalIndex whose queried balance equals the
\* prev_reward_balance left by the previous successful update succeeds with
\* claimed_rewards = 0 and lido_fee = 0 and leaves global_index and
\* prev_reward_balance unchanged.
C9_RepeatedUpdateIsNoOp ==
    (/\ IsUpdate /\ SenderIsHub
     /\ call.state.total_balance > 0
     /\ Queried = call.state.prev_reward_balance) =>
      /\ res.ok
      /\ LoggedClaimed = 0
      /\ LoggedFee = 0
      /\ state.global_index = call.state.global_index
      /\ state.prev_reward_balance = call.state.prev_reward_balance

C9_Witness ==
    /\ IsUpdate /\ SenderIsHub /\ res.ok
    /\ call.state.global_index > 0
    /\ Queried = call.state.prev_reward_balance
    /\ Queried > 0
    /\ state = call.state

\* C10: UpdateGlobalIndex by a sender whose canonical address differs from
\* config.hub_contract fails with Unauthorized, leaves State unchanged and
\* emits no instruction.
C10_UpdateOnlyByHub ==
    (IsUpdate /\ SenderNotHub) =>
      /\ Rejected(ErrUnauthorized)
      /\ state = call.state

C10_Witness ==
    /\ IsUpdate /\ SenderNotHub
    /\ call.state.total_balance > 0
    /\ Queried > call.state.prev_reward_balance
    /\ res.err = ErrUnauthorized

\* C11: after a successful UpdateGlobalIndex, once the host has executed the
\* fee transfer as a debit of the gross lido_fee and while nothing further has
\* arrived (the reward_denom balance has changed by arrivals and such debits
\* only), prev_reward_balance equals the reward_denom balance of the contract.
C11_SnapshotMatchesBalance ==
    (/\ initialized /\ pending = <<>>
     /\ audit.clean /\ audit.uncounted = 0) =>
      state.prev_reward_balance = balances[config.reward_denom]

C11_Witness ==
    /\ IsUpdate /\ res.ok /\ pending = <<>>
    /\ audit.clean /\ audit.uncounted = 0
    /\ LoggedFee > 0
    /\ res.messages[1].amount < LoggedFee
    /\ balances[config.reward_denom] = Queried - LoggedFee
    /\ state.prev_reward_balance = balances[config.reward_denom]

\* C12: every successful UpdateGlobalIndex emits exactly one instruction, a
\* transfer from the contract to config.lido_fee_address in reward_denom whose
\* declared amount is the tax-deducted lido_fee, also when lido_fee = 0.
C12_OneFeeTransfer ==
    (IsUpdate /\ res.ok) =>
      res.messages = <<BankSend(CONTRACT, config.lido_fee_address,
                                config.reward_denom, deduct_tax(LoggedFee))>>

C12_Witness ==
    /\ IsUpdate /\ res.ok
    /\ Queried > call.state.prev_reward_balance
    /\ LoggedFee = 0
    /\ Len(res.messages) = 1
    /\ res.messages[1].amount = 0
    /\ res.messages[1].to = "lido"

\* C13: every UpdateGlobalIndex is all-or-nothing: whichever step fails, the
\* stored State is the State before the call and no instruction is emitted.
C13_UpdateAllOrNothing ==
    (IsUpdate /\ ~res.ok) =>
      /\ state = call.state
      /\ res.messages = <<>>
      /\ pending = <<>>

C13_Witness ==
    /\ IsUpdate /\ SenderIsHub /\ ~res.ok
    /\ call.state.total_balance > 0
    /\ Queried > call.state.prev_reward_balance
    /\ state = call.state
    /\ res.messages = <<>>

\* C14: State changes only in a successful UpdateGlobalIndex step; TriggerSwap
\* and SendReward, successful or failed, leave it as it was, and no operation
\* changes Config once it is initialized.
C14_StateOnlyByUpdate ==
    /\ []((IsSwap \/ IsSend) => state = call.state)
    /\ [][initialized =>
            /\ config' = config
            /\ (state' # state) =>
                 /\ call'.op = "UpdateGlobalIndex"
                 /\ res'.ok
                 /\ call'.state = state]_vars

C14_Witness ==
    /\ IsSend /\ res.ok /\ pending = <<>>
    /\ balances[config.reward_denom] < call.balances[config.reward_denom]
    /\ state = call.state
    /\ state.global_index > 0

\* C15: with lido_fee_rate in [0,1] an UpdateGlobalIndex by hub_contract with
\* total_balance > 0 and a queried balance >= prev_reward_balance always
\* succeeds, and the new prev_reward_balance lies between the old one and the
\* queried balance.
C15_UpdateAlwaysSucceeds ==
    (/\ IsUpdate /\ SenderIsHub
     /\ config.lido_fee_rate <= DECIMAL_FRACTIONAL
     /\ call.state.total_balance > 0
     /\ Queried >= call.state.prev_reward_balance) =>
      /\ res.ok
      /\ call.state.prev_reward_balance <= state.prev_reward_balance
      /\ state.prev_reward_balance <= Queried

\* C16: UpdateGlobalIndex reports the first guard that applies, in the order
\* Uninitialized, Unauthorized, InvalidState, ArithmeticUnderflow: absent
\* storage fails Uninitialized for every sender; a non-hub sender gets
\* Unauthorized also with total_balance = 0 or a balance below the snapshot; a
\* hub call with total_balance = 0 gets InvalidState also with a balance below
\* the snapshot.
C16_GuardOrder ==
    IsUpdate =>
      /\ ~Loaded => Rejected(ErrUninitialized)
      /\ SenderNotHub => Rejected(ErrUnauthorized)
      /\ (SenderIsHub /\ call.state.total_balance = 0) => Rejected(ErrNoAsset)
      /\ (/\ SenderIsHub /\ call.state.total_balance > 0
          /\ Queried < call.state.prev_reward_balance) => Rejected(ErrUnderflow)

C16_Witness ==
    /\ IsUpdate /\ SenderNotHub
    /\ call.state.total_balance = 0
    /\ Queried < call.state.prev_reward_balance
    /\ res.err = ErrUnauthorized

\* C17: the increment added to global_index is floor(net * S / total_balance)
\* for every net claimed_rewards and total_balance that are balances: the
\* product net * S is formed wider than the storage width, so the division
\* neither overflows nor aborts (the index itself still fitting its storage).
C17_WideRatio ==
    LET P     == call.state.prev_reward_balance
        T     == call.state.total_balance
        gross == Queried - P
        net   == gross - (gross * config.lido_fee_rate) \div DECIMAL_FRACTIONAL
        inc   == (net * DECIMAL_FRACTIONAL) \div T
    IN (/\ IsUpdate /\ SenderIsHub
        /\ config.lido_fee_rate <= DECIMAL_FRACTIONAL
        /\ T > 0 /\ T <= UINT128_MAX
        /\ Queried >= P /\ Queried <= UINT128_MAX
        /\ call.state.global_index + inc <= UINT128_MAX) =>
         /\ res.ok
         /\ state.global_index = call.state.global_index + inc

\* C18: funds arriving in reward_denom between updates leave State alone and
\* are counted exactly once by the next successful update: while the balance
\* changes only by arrivals and by debits of the gross lido_fee, the sum of
\* net claimed_rewards + lido_fee over the updates equals the arrivals up to
\* the last update.
C18_ArrivalsCountedOnce ==
    /\ [](audit.clean => audit.counted + audit.uncounted = audit.arrived)
    /\ [][balances' # balances => state' = state]_vars

C18_Witness ==
    /\ IsUpdate /\ res.ok
    /\ audit.clean /\ audit.uncounted = 0
    /\ LoggedClaimed + LoggedFee > 0
    /\ audit.counted > LoggedClaimed + LoggedFee
    /\ audit.counted = audit.arrived

\* C19: SendReward with amount > 0 by any sender other than the owner,
\* hub_contract included, is rejected as unauthorized and emits no transfer;
\* the owner, not being hub_contract, can trigger neither TriggerSwap nor
\* UpdateGlobalIndex.
C19_DistinctPrincipals ==
    /\ (IsSend /\ call.amount > 0 /\ SenderNotOwner) =>
         /\ ~res.ok /\ res.messages = <<>>
         /\ res.err \in {ErrUnauthorized, ErrSendUnauthorized}
    /\ ((IsSwap \/ IsUpdate) /\ SenderIsOwner /\ SenderNotHub) =>
         /\ ~res.ok /\ res.messages = <<>>
         /\ res.err \in {ErrUnauthorized, ErrSendUnauthorized}

\* C20: rounding remainders are not carried forward: a successful update
\* advances prev_reward_balance by the whole delta minus the fee while the
\* index grows by floor(net * S / total_balance) only, so global_index *
\* total_balance never exceeds the sum of net claimed_rewards, each update
\* falls short by less than total_balance / S, and the accumulated shortfall
\* never shrinks.
C20_RoundingNotCarried ==
    /\ []((IsUpdate /\ res.ok) =>
            LET T   == call.state.total_balance
                inc == state.global_index - call.state.global_index
            IN /\ inc * T <= LoggedClaimed * DECIMAL_FRACTIONAL
               /\ LoggedClaimed * DECIMAL_FRACTIONAL - inc * T < T
               /\ state.prev_reward_balance = Queried - LoggedFee)
    /\ [](initialized =>
            state.global_index * state.total_balance
              <= audit.net_sum * DECIMAL_FRACTIONAL)
    /\ [][initialized =>
            audit'.net_sum * DECIMAL_FRACTIONAL
                - state'.global_index * state'.total_balance
              >= audit.net_sum * DECIMAL_FRACTIONAL
                - state.global_index * state.total_balance]_vars

C20_Witness ==
    /\ IsUpdate /\ res.ok
    /\ LoggedClaimed > 0
    /\ state.global_index = call.state.global_index
    /\ state.prev_reward_balance > call.state.prev_reward_balance

====
